---- MODULE Spec2Model ----
(***************************************************************************)
(* A model of the ReAgent training workflow                                *)
(*   reagent/workflow/training.py   (identify_and_train_network,           *)
(*                                   get_sample_range, query_and_train,    *)
(*                                   run_validator, run_publisher)         *)
(* and of the reward-network evaluator                                     *)
(*   reagent/evaluation/reward_net_evaluator.py  (RewardNetEvaluator).     *)
(*                                                                         *)
(* Percentages are fixed-point numbers in units of 1e-4, so that 100.0 is  *)
(* Hundred and the tolerance 1e-3 is Eps.  An Optional value is a sequence *)
(* of length 0 (None) or 1 (the value).                                    *)
(***************************************************************************)
EXTENDS Integers, Sequences, FiniteSets, TLC

VARIABLES
    \* ---- one run of identify_and_train_network / query_and_train ----
    pc,                       \* the statement the run has reached
    entry,                    \* "identify" or "direct": the entry point called
    setup_data,               \* Optional: local setup_data
    saved_setup_data,         \* Optional: local saved_setup_data
    normalization_data_map,   \* Optional: local normalization_data_map
    named_model_ids,          \* Optional: local named_model_ids
    validator,                \* Optional: argument validator
    publisher,                \* Optional: argument publisher
    input_table_spec,         \* [table_sample, eval_table_sample], each Optional
    should_generate_eval_dataset, \* the manager's attribute of that name
    manager_data_module,      \* Optional: what the manager's get_data_module
                              \* gives query_and_train
    calc_cpe_in_training,     \* Optional: local calc_cpe_in_training
    sample_range_output,      \* Optional: result of get_sample_range
    train_dataset,            \* Optional: local train_dataset
    eval_dataset,             \* Optional: local eval_dataset
    results,                  \* Optional: local results (an RLTrainingOutput)
    returned,                 \* Optional: the value returned to the caller
    error,                    \* "none" or the exception that ended the run
    calls,                    \* the collaborator calls made so far, in order
    queries,                  \* the sample ranges query_data received, in order
    train_args,               \* Optional: the arguments train_workflow received
    publish_arg,              \* Optional: the record the publisher received
    \* ---- get_sample_range called on its own ----
    range_input,              \* [table_spec, calc_cpe_in_training]
    range_output,             \* Optional: what the call returned or raised
    \* ---- run_validator and run_publisher called on their own ----
    stage_record,             \* the RLTrainingOutput the caller holds
    stage_outcome,            \* the last call: its name, input and outcome
    stage_calls,              \* the calls of validate and publish, in order
    \* ---- one RewardNetEvaluator and the model it evaluates ----
    reward_net,               \* trainer.reward_net: [training, weights]
    loss,                     \* self.loss: one loss value per batch
    rewards,                  \* self.rewards: one flattened tensor per batch
    pred_rewards,             \* self.pred_rewards: likewise
    best_model,               \* Optional: self.best_model
    best_model_loss,          \* self.best_model_loss, a rational number
    eval_call,                \* the last call: its name, locals and outcome
    ncalls,                   \* the calls of evaluate and evaluate_post_training
    recorded,                 \* history: the batches of the calls of evaluate
                              \* that returned since the last call of
                              \* evaluate_post_training that returned
    \* ---- calls of one evaluator made by several threads ----
    threads,                  \* per thread: the statement reached, the locals
    returns                   \* history: the calls that ended, in that order

\* the arguments of a run and the manager's attribute: never assigned
run_args == <<entry, validator, publisher, input_table_spec,
              should_generate_eval_dataset, manager_data_module>>

\* what data resolution assigns
data_vars == <<setup_data, saved_setup_data, normalization_data_map,
               named_model_ids>>

\* what the dataset queries assign
query_vars == <<calc_cpe_in_training, sample_range_output, train_dataset,
                eval_dataset, queries>>

\* what training and the two optional stages assign
stage_vars == <<results, train_args, publish_arg>>

run_vars == <<pc, error, calls, returned, run_args, data_vars, query_vars,
              stage_vars>>

range_vars == <<range_input, range_output>>

pipeline_vars == <<stage_record, stage_outcome, stage_calls>>

\* the three accumulator lists
lists == <<loss, rewards, pred_rewards>>

\* the best-model slot
best == <<best_model, best_model_loss>>

evaluator_vars == <<reward_net, lists, best, eval_call, ncalls, recorded>>

thread_vars == <<threads, returns>>

not_run_vars == <<range_vars, pipeline_vars, evaluator_vars, thread_vars>>

not_range_vars == <<run_vars, pipeline_vars, evaluator_vars, thread_vars>>

not_pipeline_vars == <<run_vars, range_vars, evaluator_vars, thread_vars>>

not_evaluator_vars == <<run_vars, range_vars, pipeline_vars, thread_vars>>

\* what the statements of a thread leave alone
not_thread_vars == <<run_vars, range_vars, pipeline_vars, eval_call, recorded>>

vars == <<run_vars, range_vars, pipeline_vars, evaluator_vars, thread_vars>>

-----------------------------------------------------------------------------
(* Optional values *)

None == <<>>

Some(x) == <<x>>

IsNone(o) == Len(o) = 0

IsSome(o) == Len(o) = 1

Get(o) == o[1]

-----------------------------------------------------------------------------
(* Fixed-point percentages *)

\* 100.0 in units of 1e-4
Hundred == 1000000

\* 1e-3 in units of 1e-4
Eps == 10

\* The sampling percentages tried: every multiple of 5%, and up to MaxFine
\* steps of half the tolerance above each.
CoarseSteps == 20

MaxFine == 3

Step == Hundred \div 20

FineStep == Eps \div 2

Percentages == {c * Step + f * FineStep : c \in 0..CoarseSteps, f \in 0..MaxFine}

TableSpecs ==
    [table_sample : {None} \cup {Some(p) : p \in Percentages},
     eval_table_sample : {None} \cup {Some(p) : p \in Percentages}]

-----------------------------------------------------------------------------
(* get_sample_range *)

\* the range (0.0, 100.0) or (0.0, table_sample) of the branch without CPE
TrainRangeWithoutCpe(table_sample) ==
    IF IsNone(table_sample) THEN <<0, Hundred>> ELSE <<0, Get(table_sample)>>

\* mutants of SumWithinTolerance: the tolerance doubled; a strict comparison
SumWithinDoubleTolerance(table_sample, eval_table_sample) ==
    (eval_table_sample + table_sample) <= (Hundred + 2 * Eps)

SumStrictlyWithinTolerance(table_sample, eval_table_sample) ==
    (eval_table_sample + table_sample) < (Hundred + Eps)

\* the third assertion: (eval_table_sample + table_sample) <= (100.0 + 1e-3)
SumWithinTolerance(table_sample, eval_table_sample) ==
    (eval_table_sample + table_sample) <= (Hundred + Eps)

\* the three assertions of the CPE branch
SampleAssertionsHold(table_sample, eval_table_sample) ==
    /\ IsSome(table_sample)
    /\ IsSome(eval_table_sample)
    /\ SumWithinTolerance(Get(table_sample), Get(eval_table_sample))

\* mutant of EvalRangeWithCpe: the lower bound not taken from the top
EvalRangeFromSample(eval_table_sample) ==
    <<eval_table_sample, Hundred>>

\* eval_sample_range=(100.0 - eval_table_sample, 100.0)
EvalRangeWithCpe(eval_table_sample) ==
    <<Hundred - eval_table_sample, Hundred>>

\* TrainEvalSampleRanges, or the AssertionError the call raises
get_sample_range(table_spec, cpe) ==
    LET table_sample == table_spec.table_sample
        eval_table_sample == table_spec.eval_table_sample
    IN  IF ~cpe
        THEN [raised |-> FALSE,
              train_sample_range |-> TrainRangeWithoutCpe(table_sample),
              eval_sample_range |-> <<0, 0>>]
        ELSE IF ~SampleAssertionsHold(table_sample, eval_table_sample)
        THEN [raised |-> TRUE,
              train_sample_range |-> <<>>,
              eval_sample_range |-> <<>>]
        ELSE [raised |-> FALSE,
              train_sample_range |-> <<0, Get(table_sample)>>,
              eval_sample_range |-> EvalRangeWithCpe(Get(eval_table_sample))]

-----------------------------------------------------------------------------
(* run_validator and run_publisher *)

\* what validate and publish may return
ValidationResults == {Some("validation_passed"), Some("validation_failed")}

PublishingResults == {Some("published"), Some("not_published")}

\* the RLTrainingOutput records: the two results set or unset
TrainingOutputs ==
    [training_report : {"training_report"},
     validation_result : {None} \cup ValidationResults,
     publishing_result : {None} \cup PublishingResults]

\* mutant of ValidationUnset: the assertion is missing
ValidationUnchecked(training_output) == TRUE

\* the assertion of run_validator
ValidationUnset(training_output) == IsNone(training_output.validation_result)

\* the assertion of run_publisher
PublishingUnset(training_output) == IsNone(training_output.publishing_result)

\* mutant of ReplaceValidation: the replaced record is dropped
ReplaceValidationDropped(training_output, validation_result) ==
    training_output

\* dataclasses.replace(training_output, validation_result=validation_result)
ReplaceValidation(training_output, validation_result) ==
    [training_output EXCEPT !.validation_result = validation_result]

\* mutant of ReplacePublishing: the validation result is not carried over
ReplacePublishingOnly(training_output, publishing_result) ==
    [training_output EXCEPT !.publishing_result = publishing_result,
                            !.validation_result = None]

\* dataclasses.replace(training_output, publishing_result=publishing_result)
ReplacePublishing(training_output, publishing_result) ==
    [training_output EXCEPT !.publishing_result = publishing_result]

\* run_validator: validate raises (collaborator_raises) or returns
\* validation_result.  called: whether validate was invoked; output: the
\* record returned, None when the call raised.
run_validator(training_output, collaborator_raises, validation_result) ==
    IF ~ValidationUnset(training_output)
    THEN [error |-> "AssertionError", called |-> FALSE, output |-> None]
    ELSE IF collaborator_raises
    THEN [error |-> "CollaboratorError", called |-> TRUE, output |-> None]
    ELSE [error |-> "none", called |-> TRUE,
          output |-> Some(ReplaceValidation(training_output, validation_result))]

\* run_publisher, likewise
run_publisher(training_output, collaborator_raises, publishing_result) ==
    IF ~PublishingUnset(training_output)
    THEN [error |-> "AssertionError", called |-> FALSE, output |-> None]
    ELSE IF collaborator_raises
    THEN [error |-> "CollaboratorError", called |-> TRUE, output |-> None]
    ELSE [error |-> "none", called |-> TRUE,
          output |-> Some(ReplacePublishing(training_output, publishing_result))]

-----------------------------------------------------------------------------
(* identify_and_train_network and query_and_train, statement by statement *)

\* _maybe_get_bytes: bytes as they are, a Blob's data otherwise
MaybeGetBytes(v) == [carrier |-> "bytes", data |-> v.data]

\* sum([int(setup_data is not None), int(normalization_data_map is not None)])
PresentCount(setup, normalization) ==
    (IF IsSome(setup) THEN 1 ELSE 0) + (IF IsSome(normalization) THEN 1 ELSE 0)

\* mutant of NotMutuallyExclusive: only "neither present" is rejected
NeitherPresent(setup, normalization) ==
    PresentCount(setup, normalization) = 0

\* the condition under which query_and_train raises ValueError
NotMutuallyExclusive(setup, normalization) ==
    PresentCount(setup, normalization) # 1

\* the answers a manager may give
DataModules == {None, Some("data_module")}

PreparedData == {None, Some("prepared_setup_data")}

\* mutant of ResolvedNormalization: the caller's map is kept
ResolvedNormalizationKept(data_module, normalization) == normalization

\* "if data_module is not None: ... normalization_data_map = None"
ResolvedNormalization(data_module, normalization) ==
    IF IsSome(data_module) THEN None ELSE normalization

\* mutant of Fail: the exception is caught and the statement runs again
FailAndRetry(exception) ==
    /\ pc' = pc
    /\ error' = exception

\* an exception leaves query_and_train: nothing catches it
Fail(exception) ==
    /\ pc' = "failed"
    /\ error' = exception

Goto(statement) ==
    /\ pc' = statement
    /\ error' = error

\* identify_and_train_network up to its call of query_and_train
Identify ==
    /\ pc = "identify"
    /\ \E data_module \in DataModules, prepared \in PreparedData,
          first_raises \in BOOLEAN, second_raises \in BOOLEAN :
          /\ calls' = calls \o
                (IF first_raises THEN <<"get_data_module">>
                 ELSE IF IsSome(data_module)
                 THEN <<"get_data_module", "prepare_data">>
                 ELSE <<"get_data_module", "run_feature_identification">>)
          /\ IF first_raises \/ second_raises
             THEN /\ Fail("CollaboratorError")
                  /\ UNCHANGED <<setup_data, normalization_data_map>>
             ELSE /\ Goto("init")
                  /\ setup_data' =
                        IF IsSome(data_module) THEN prepared ELSE None
                  /\ normalization_data_map' =
                        IF IsSome(data_module) THEN None
                        ELSE Some("identified_normalization")
    /\ UNCHANGED <<returned, run_args, saved_setup_data, named_model_ids,
                   query_vars, stage_vars, not_run_vars>>

\* query_and_train: workflow id, entity ids, options, saved_setup_data
Begin ==
    /\ pc = "init"
    /\ \E raises \in BOOLEAN :
          /\ calls' = calls \o
                (IF IsNone(named_model_ids)
                 THEN <<"get_workflow_id", "get_new_named_entity_ids">>
                 ELSE <<"get_workflow_id">>)
          /\ IF raises
             THEN /\ Fail("CollaboratorError")
                  /\ UNCHANGED <<named_model_ids, saved_setup_data>>
             ELSE /\ Goto("resolve")
                  /\ named_model_ids' =
                        IF IsNone(named_model_ids) THEN Some("new_entity_ids")
                        ELSE named_model_ids
                  /\ saved_setup_data' =
                        IF IsSome(saved_setup_data)
                        THEN Some(MaybeGetBytes(Get(saved_setup_data)))
                        ELSE saved_setup_data
    /\ UNCHANGED <<returned, run_args, setup_data, normalization_data_map,
                   query_vars, stage_vars, not_run_vars>>

\* query_and_train: "if setup_data is None: ..."
ResolveData ==
    /\ pc = "resolve"
    /\ IF IsSome(setup_data)
       THEN /\ Goto("check")
            /\ UNCHANGED <<calls, setup_data, normalization_data_map>>
       ELSE \E data_module \in {manager_data_module},
               prepared \in PreparedData,
               first_raises \in BOOLEAN, second_raises \in BOOLEAN :
               /\ calls' = calls \o
                     (IF first_raises \/ IsNone(data_module)
                      THEN <<"get_data_module">>
                      ELSE <<"get_data_module", "prepare_data">>)
               /\ IF first_raises \/ (IsSome(data_module) /\ second_raises)
                  THEN /\ Fail("CollaboratorError")
                       /\ UNCHANGED <<setup_data, normalization_data_map>>
                  ELSE /\ Goto("check")
                       /\ setup_data' =
                             IF IsSome(data_module) THEN prepared
                             ELSE setup_data
                       /\ normalization_data_map' =
                             ResolvedNormalization(data_module,
                                                   normalization_data_map)
    /\ UNCHANGED <<returned, run_args, saved_setup_data, named_model_ids,
                   query_vars, stage_vars, not_run_vars>>

\* query_and_train: the mutual-exclusivity check
CheckExclusive ==
    /\ pc = "check"
    /\ IF NotMutuallyExclusive(setup_data, normalization_data_map)
       THEN Fail("ValueError")
       ELSE Goto(IF IsSome(normalization_data_map) THEN "sample_range"
                 ELSE "train")
    /\ UNCHANGED <<calls, returned, run_args, data_vars, query_vars,
                   stage_vars, not_run_vars>>

\* query_and_train: calc_cpe_in_training and get_sample_range
SampleRange ==
    /\ pc = "sample_range"
    /\ calc_cpe_in_training' = Some(should_generate_eval_dataset)
    /\ LET output == get_sample_range(input_table_spec,
                                      should_generate_eval_dataset)
       IN  IF output.raised
           THEN /\ Fail("AssertionError")
                /\ UNCHANGED sample_range_output
           ELSE /\ Goto("query_train")
                /\ sample_range_output' = Some(output)
    /\ UNCHANGED <<calls, returned, run_args, data_vars, train_dataset,
                   eval_dataset, queries, stage_vars, not_run_vars>>

\* mutant of AfterQueryTrain: the eval query is issued in every run
AfterQueryTrainAlways(cpe) == "query_eval"

\* "if calc_cpe_in_training:" before the eval query
AfterQueryTrain(cpe) == IF cpe THEN "query_eval" ELSE "train"

\* query_and_train: train_dataset = manager.query_data(...)
QueryTrain ==
    /\ pc = "query_train"
    /\ calls' = Append(calls, "query_data")
    /\ queries' = Append(queries, Get(sample_range_output).train_sample_range)
    /\ \E raises \in BOOLEAN :
          IF raises
          THEN /\ Fail("CollaboratorError")
               /\ UNCHANGED train_dataset
          ELSE /\ Goto(AfterQueryTrain(Get(calc_cpe_in_training)))
               /\ train_dataset' =
                     Some(Get(sample_range_output).train_sample_range)
    /\ UNCHANGED <<returned, run_args, data_vars, calc_cpe_in_training,
                   sample_range_output, eval_dataset, stage_vars, not_run_vars>>

\* query_and_train: eval_dataset = manager.query_data(...)
QueryEval ==
    /\ pc = "query_eval"
    /\ calls' = Append(calls, "query_data")
    /\ queries' = Append(queries, Get(sample_range_output).eval_sample_range)
    /\ \E raises \in BOOLEAN :
          IF raises
          THEN /\ Fail("CollaboratorError")
               /\ UNCHANGED eval_dataset
          ELSE /\ Goto("train")
               /\ eval_dataset' =
                     Some(Get(sample_range_output).eval_sample_range)
    /\ UNCHANGED <<returned, run_args, data_vars, calc_cpe_in_training,
                   sample_range_output, train_dataset, stage_vars, not_run_vars>>

\* query_and_train: results = manager.train_workflow(...)
Train ==
    /\ pc = "train"
    /\ calls' = Append(calls, "train_workflow")
    /\ train_args' = Some([train_dataset |-> train_dataset,
                           eval_dataset |-> eval_dataset,
                           setup_data |-> setup_data,
                           normalization_data_map |-> normalization_data_map])
    /\ \E raises \in BOOLEAN, training_output \in TrainingOutputs :
          IF raises
          THEN /\ Fail("CollaboratorError")
               /\ UNCHANGED results
          ELSE /\ Goto("validate")
               /\ results' = Some(training_output)
    /\ UNCHANGED <<returned, run_args, data_vars, query_vars, publish_arg,
                   not_run_vars>>

\* query_and_train: "if validator is not None: ..."
Validate ==
    /\ pc = "validate"
    /\ IF IsNone(validator)
       THEN /\ Goto("publish")
            /\ UNCHANGED <<calls, results>>
       ELSE \E raises \in BOOLEAN, validation_result \in ValidationResults :
               LET outcome == run_validator(Get(results), raises,
                                            validation_result)
               IN  /\ calls' = IF outcome.called THEN Append(calls, "validate")
                               ELSE calls
                   /\ IF outcome.error # "none"
                      THEN /\ Fail(outcome.error)
                           /\ UNCHANGED results
                      ELSE /\ Goto("publish")
                           /\ results' = outcome.output
    /\ UNCHANGED <<returned, run_args, data_vars, query_vars, train_args,
                   publish_arg, not_run_vars>>

\* query_and_train: "if publisher is not None: ..."
Publish ==
    /\ pc = "publish"
    /\ IF IsNone(publisher)
       THEN /\ Goto("return")
            /\ UNCHANGED <<calls, results, publish_arg>>
       ELSE \E raises \in BOOLEAN, publishing_result \in PublishingResults :
               LET outcome == run_publisher(Get(results), raises,
                                            publishing_result)
               IN  /\ calls' = IF outcome.called THEN Append(calls, "publish")
                               ELSE calls
                   /\ publish_arg' = IF outcome.called THEN results
                                     ELSE publish_arg
                   /\ IF outcome.error # "none"
                      THEN /\ Fail(outcome.error)
                           /\ UNCHANGED results
                      ELSE /\ Goto("return")
                           /\ results' = outcome.output
    /\ UNCHANGED <<returned, run_args, data_vars, query_vars, train_args,
                   not_run_vars>>

\* query_and_train: return results
Return ==
    /\ pc = "return"
    /\ Goto("done")
    /\ returned' = results
    /\ UNCHANGED <<calls, run_args, data_vars, query_vars, stage_vars,
                   not_run_vars>>

-----------------------------------------------------------------------------
(* Numbers of the evaluator: a loss is a rational [num, den]; the mean of  *)
(* no values, which numpy gives as nan, is 0/0                             *)

RECURSIVE Gcd(_, _)
Gcd(a, b) == IF b = 0 THEN a ELSE Gcd(b, a % b)

Rational(num, den) == [num |-> num \div Gcd(num, den), den |-> den \div Gcd(num, den)]

NaN == [num |-> 0, den |-> 0]

IsNaN(x) == x.den = 0

\* x < y as Python compares floats: False when either is nan
Less(x, y) ==
    /\ ~IsNaN(x)
    /\ ~IsNaN(y)
    /\ \/ x.num \div x.den < y.num \div y.den
       \/ /\ x.num \div x.den = y.num \div y.den
          /\ (x.num % x.den) * y.den < (y.num % y.den) * x.den

RECURSIVE Sum(_)
Sum(values) == IF values = <<>> THEN 0 ELSE Head(values) + Sum(Tail(values))

\* mutant of NpMean: the first value instead of the mean
NpMeanOfFirst(values) ==
    IF values = <<>> THEN NaN ELSE Rational(Head(values), 1)

\* np.mean of a list of loss values
NpMean(values) ==
    IF values = <<>> THEN NaN ELSE Rational(Sum(values), Len(values))

\* mutant of TorchCatRaises: concatenating no tensors gives an empty tensor
TorchCatAcceptsEmpty(tensors) == FALSE

\* torch.cat raises a RuntimeError when given an empty list
TorchCatRaises(tensors) == tensors = <<>>

\* mutant of TorchCat: only the last tensor is returned
TorchCatLast(tensors) ==
    IF tensors = <<>> THEN <<>> ELSE tensors[Len(tensors)]

\* torch.cat of a list of flattened tensors
RECURSIVE TorchCat(_)
TorchCat(tensors) ==
    IF tensors = <<>> THEN <<>> ELSE Head(tensors) \o TorchCat(Tail(tensors))

-----------------------------------------------------------------------------
(* RewardNetEvaluator *)

\* self.best_model_loss = 1e9
InitialBestModelLoss == 1000000000

\* mutant of BatchReward: the other field stands in for an absent reward
BatchRewardOrOther(eval_tdp) ==
    IF eval_tdp.ranking /\ IsSome(eval_tdp.slate_reward)
    THEN eval_tdp.slate_reward
    ELSE IF IsSome(eval_tdp.reward) THEN eval_tdp.reward
    ELSE eval_tdp.slate_reward

\* the ground-truth reward of a batch: slate_reward of a
\* PreprocessedRankingInput, reward of any other batch
BatchReward(eval_tdp) ==
    IF eval_tdp.ranking THEN eval_tdp.slate_reward ELSE eval_tdp.reward

\* mutant of Improves: a mean equal to the best also replaces it
ImprovesOrTies(mean_loss, best_loss) == ~Less(best_loss, mean_loss)

\* mean_loss < self.best_model_loss
Improves(mean_loss, best_loss) == Less(mean_loss, best_loss)

\* mutant of DeepCopy: a newly built model instead of a copy
FreshModel(model) == [training |-> TRUE, weights |-> 0]

\* copy.deepcopy(self.trainer.reward_net)
DeepCopy(model) == model

\* reward_net(eval_tdp).predicted_reward: one prediction per reward
PredictedReward(reward, outcome) ==
    [i \in 1..Len(reward) |-> outcome.pred_reward]

\* the record of a call of evaluate
\* (of the batch, which of its fields are set)
EvaluateCall(eval_tdp, prev_mode, forward_called, exception) ==
    [op |-> "evaluate", error |-> exception,
     eval_tdp |-> Some([ranking |-> eval_tdp.ranking,
                        has_slate_reward |-> IsSome(eval_tdp.slate_reward),
                        has_reward |-> IsSome(eval_tdp.reward)]),
     forward_called |-> forward_called,
     reward_net_prev_mode |-> Some(prev_mode),
     mean_loss |-> None, eval_res |-> None]

\* mutant of evaluate: the rewards are appended before loss_fn is called
evaluate_appending_early(eval_tdp, outcome) ==
    LET reward_net_prev_mode == reward_net.training
        reward == BatchReward(eval_tdp)
        exception ==
            IF IsNone(reward) THEN "AssertionError"
            ELSE IF outcome.raises # "none" THEN "CollaboratorError"
            ELSE "none"
    IN  /\ eval_call' = EvaluateCall(eval_tdp, reward_net_prev_mode,
                                     IsSome(reward), exception)
        /\ ncalls' = ncalls + 1
        /\ rewards' = IF IsNone(reward) \/ outcome.raises = "forward"
                      THEN rewards ELSE Append(rewards, Get(reward))
        /\ IF exception # "none"
           THEN /\ reward_net' = [reward_net EXCEPT !.training = FALSE]
                /\ UNCHANGED <<loss, pred_rewards>>
           ELSE /\ loss' = Append(loss, outcome.loss)
                /\ pred_rewards' =
                      Append(pred_rewards,
                             PredictedReward(Get(reward), outcome))
                /\ reward_net' =
                      [reward_net EXCEPT !.training = reward_net_prev_mode]
        /\ UNCHANGED best

\* evaluate(eval_tdp), where outcome tells what the collaborators do: the
\* forward pass raises, loss_fn raises, or they give pred_reward and loss
evaluate(eval_tdp, outcome) ==
    LET reward_net_prev_mode == reward_net.training
        reward == BatchReward(eval_tdp)
        exception ==
            IF IsNone(reward) THEN "AssertionError"
            ELSE IF outcome.raises # "none" THEN "CollaboratorError"
            ELSE "none"
    IN  /\ eval_call' = EvaluateCall(eval_tdp, reward_net_prev_mode,
                                     IsSome(reward), exception)
        /\ ncalls' = ncalls + 1
        /\ IF exception # "none"
           THEN \* reward_net.eval() has run, reward_net.train(...) has not
                /\ reward_net' = [reward_net EXCEPT !.training = FALSE]
                /\ UNCHANGED lists
           ELSE /\ loss' = Append(loss, outcome.loss)
                /\ rewards' = Append(rewards, Get(reward))
                /\ pred_rewards' =
                      Append(pred_rewards,
                             PredictedReward(Get(reward), outcome))
                /\ reward_net' =
                      [reward_net EXCEPT !.training = reward_net_prev_mode]
        /\ UNCHANGED best

\* evaluate_post_training()
evaluate_post_training ==
    LET mean_loss == NpMean(loss)
        raises == TorchCatRaises(rewards) \/ TorchCatRaises(pred_rewards)
        eval_res == [loss |-> mean_loss,
                     rewards |-> TorchCat(rewards),
                     pred_rewards |-> TorchCat(pred_rewards)]
    IN  /\ ncalls' = ncalls + 1
        /\ eval_call' =
              [op |-> "evaluate_post_training",
               error |-> IF raises THEN "RuntimeError" ELSE "none",
               eval_tdp |-> None, forward_called |-> FALSE,
               reward_net_prev_mode |-> None,
               mean_loss |-> Some(mean_loss),
               eval_res |-> IF raises THEN None ELSE Some(eval_res)]
        /\ IF raises
           THEN UNCHANGED <<lists, best>>
           ELSE /\ loss' = <<>>
                /\ rewards' = <<>>
                /\ pred_rewards' = <<>>
                /\ IF Improves(mean_loss, best_model_loss)
                   THEN /\ best_model_loss' = mean_loss
                        /\ best_model' = Some(DeepCopy(reward_net))
                   ELSE UNCHANGED best
        /\ UNCHANGED reward_net

\* the threads that call the evaluator
Threads == {1, 2}

\* a thread that is in no call
IdleThread ==
    [pc |-> "idle", op |-> "none", id |-> 0, overlapped |-> FALSE,
     mode_at_call |-> FALSE, reward_net_prev_mode |-> FALSE,
     batch |-> None, mean_loss |-> None, eval_res_rewards |-> None,
     eval_res_pred_rewards |-> None]

\* a newly constructed evaluator
EvaluatorStart ==
    /\ threads = [t \in Threads |-> IdleThread]
    /\ returns = <<>>
    /\ loss = <<>>
    /\ rewards = <<>>
    /\ pred_rewards = <<>>
    /\ best_model = None
    /\ best_model_loss = Rational(InitialBestModelLoss, 1)
    /\ eval_call = [op |-> "none", error |-> "none",
                    eval_tdp |-> None, forward_called |-> FALSE,
                    reward_net_prev_mode |-> None,
                    mean_loss |-> None, eval_res |-> None]
    /\ ncalls = 0
    /\ recorded = <<>>

\* no call of the evaluator: its state in the other specifications
EvaluatorIdle ==
    /\ EvaluatorStart
    /\ reward_net = [training |-> TRUE, weights |-> 0]

-----------------------------------------------------------------------------
(* Specification Spec: one run from either entry point *)

\* the table specs a run is started with: 80%, 15% and 25%, or unset
RunTableSpecs ==
    [table_sample : {None, Some(16 * Step)},
     eval_table_sample : {None, Some(3 * Step), Some(5 * Step)}]

SavedSetupData ==
    {None, Some([carrier |-> "bytes", data |-> "saved"]),
     Some([carrier |-> "Blob", data |-> "saved"])}

\* the locals no statement has assigned yet
RunStart ==
    /\ error = "none"
    /\ calls = <<>>
    /\ queries = <<>>
    /\ returned = None
    /\ calc_cpe_in_training = None
    /\ sample_range_output = None
    /\ train_dataset = None
    /\ eval_dataset = None
    /\ results = None
    /\ train_args = None
    /\ publish_arg = None

\* no run: the state of the run's variables in the other specifications
RunIdle ==
    /\ RunStart
    /\ pc = "idle"
    /\ entry = "none"
    /\ validator = None
    /\ publisher = None
    /\ input_table_spec = [table_sample |-> None, eval_table_sample |-> None]
    /\ should_generate_eval_dataset = FALSE
    /\ manager_data_module = None
    /\ setup_data = None
    /\ saved_setup_data = None
    /\ normalization_data_map = None
    /\ named_model_ids = None

RangeIdle ==
    /\ range_input = [table_spec |-> [table_sample |-> None,
                                      eval_table_sample |-> None],
                      calc_cpe_in_training |-> FALSE]
    /\ range_output = None

\* no stage called on its own
PipelineIdle ==
    /\ stage_record = [training_report |-> "training_report",
                       validation_result |-> None,
                       publishing_result |-> None]
    /\ stage_outcome = [op |-> "none", input |-> stage_record,
                        error |-> "none", called |-> FALSE, output |-> None]
    /\ stage_calls = <<>>

Init ==
    /\ RunStart
    /\ RangeIdle
    /\ PipelineIdle
    /\ EvaluatorIdle
    /\ validator \in {None, Some("validator")}
    /\ publisher \in {None, Some("publisher")}
    /\ input_table_spec \in RunTableSpecs
    /\ should_generate_eval_dataset \in BOOLEAN
    /\ manager_data_module \in DataModules
    /\ entry \in {"identify", "direct"}
    /\ IF entry = "identify"
       THEN /\ pc = "identify"
            /\ setup_data = None
            /\ saved_setup_data = None
            /\ normalization_data_map = None
            /\ named_model_ids = None
       ELSE /\ pc = "init"
            /\ setup_data \in {None, Some("caller_setup_data")}
            /\ saved_setup_data \in SavedSetupData
            /\ normalization_data_map \in {None, Some("caller_normalization")}
            /\ named_model_ids \in {None, Some("caller_entity_ids")}

Next ==
    \/ Identify
    \/ Begin
    \/ ResolveData
    \/ CheckExclusive
    \/ SampleRange
    \/ QueryTrain
    \/ QueryEval
    \/ Train
    \/ Validate
    \/ Publish
    \/ Return

Spec == Init /\ [][Next]_vars

-----------------------------------------------------------------------------
(* Specification SpecRange: get_sample_range applied to every input *)

RangeInputs == [table_spec : TableSpecs, calc_cpe_in_training : BOOLEAN]

InitRange ==
    /\ RunIdle
    /\ PipelineIdle
    /\ EvaluatorIdle
    /\ range_input \in RangeInputs
    /\ range_output = None

CallGetSampleRange ==
    /\ IsNone(range_output)
    /\ range_output' = Some(get_sample_range(range_input.table_spec,
                                              range_input.calc_cpe_in_training))
    /\ UNCHANGED <<range_input, not_range_vars>>

NextRange == CallGetSampleRange

SpecRange == InitRange /\ [][NextRange]_vars

-----------------------------------------------------------------------------
(* Specification SpecStages: run_validator and run_publisher applied, in   *)
(* any order and any number of times, to a record and to what they return  *)

\* the calls of validate and publish a behaviour may make
MaxStageCalls == 3

InitStages ==
    /\ RunIdle
    /\ RangeIdle
    /\ EvaluatorIdle
    /\ stage_record \in TrainingOutputs
    /\ stage_outcome = [op |-> "none", input |-> stage_record,
                        error |-> "none", called |-> FALSE, output |-> None]
    /\ stage_calls = <<>>

\* the caller keeps the record a stage returned, or the one it had
StageEffect(op, collaborator, outcome, keeps) ==
    /\ stage_outcome' = [op |-> op, input |-> stage_record,
                         error |-> outcome.error, called |-> outcome.called,
                         output |-> outcome.output]
    /\ stage_calls' = IF outcome.called THEN Append(stage_calls, collaborator)
                      ELSE stage_calls
    /\ stage_record' = IF keeps /\ IsSome(outcome.output)
                       THEN Get(outcome.output) ELSE stage_record

CallRunValidator ==
    /\ Len(stage_calls) < MaxStageCalls
    /\ \E raises \in BOOLEAN, result \in ValidationResults, keeps \in BOOLEAN :
          StageEffect("run_validator", "validate",
                      run_validator(stage_record, raises, result), keeps)
    /\ UNCHANGED not_pipeline_vars

CallRunPublisher ==
    /\ Len(stage_calls) < MaxStageCalls
    /\ \E raises \in BOOLEAN, result \in PublishingResults, keeps \in BOOLEAN :
          StageEffect("run_publisher", "publish",
                      run_publisher(stage_record, raises, result), keeps)
    /\ UNCHANGED not_pipeline_vars

NextStages == CallRunValidator \/ CallRunPublisher

SpecStages == InitStages /\ [][NextStages]_vars

-----------------------------------------------------------------------------
(* Specification SpecEvaluator: calls of one evaluator, one at a time,     *)
(* between steps of the training loop that owns the model                  *)

\* the calls of evaluate and evaluate_post_training in a behaviour
MaxCalls == 4

\* the batches accumulated between two calls of evaluate_post_training
MaxBatches == 2

\* the values the model's weights take
Weights == {0, 1}

Tensors == {<<1>>, <<2, 1>>}

EvalBatches ==
    [ranking : BOOLEAN,
     slate_reward : {None} \cup {Some(t) : t \in Tensors},
     reward : {None} \cup {Some(t) : t \in Tensors}]

PredictedRewards == {0, 1}

LossValues == {1, 2}

\* what the forward pass and loss_fn do in a call of evaluate
Outcomes ==
    [raises : {"forward", "loss_fn"}, pred_reward : {0}, loss : {1}]
    \cup [raises : {"none"}, pred_reward : PredictedRewards, loss : LossValues]

InitEvaluator ==
    /\ RunIdle
    /\ RangeIdle
    /\ PipelineIdle
    /\ EvaluatorStart
    /\ reward_net \in [training : BOOLEAN, weights : {0}]

CallEvaluate ==
    /\ ncalls < MaxCalls
    /\ Len(loss) < MaxBatches
    /\ \E eval_tdp \in EvalBatches, outcome \in Outcomes :
          /\ evaluate(eval_tdp, outcome)
          /\ recorded' =
                IF eval_call'.error = "none"
                THEN Append(recorded,
                            [loss |-> outcome.loss,
                             reward |-> Get(BatchReward(eval_tdp)),
                             pred_reward |->
                                PredictedReward(Get(BatchReward(eval_tdp)),
                                                outcome)])
                ELSE recorded
    /\ UNCHANGED not_evaluator_vars

CallEvaluatePostTraining ==
    /\ ncalls < MaxCalls
    /\ evaluate_post_training
    /\ recorded' = IF eval_call'.error = "none" THEN <<>> ELSE recorded
    /\ UNCHANGED not_evaluator_vars

\* the training loop switches the model between train() and eval()
SetMode ==
    /\ reward_net' = [reward_net EXCEPT !.training = ~@]
    /\ UNCHANGED <<lists, best, eval_call, ncalls, recorded,
                   not_evaluator_vars>>

\* the training loop updates the model's weights
UpdateWeights ==
    /\ \E weights \in Weights \ {reward_net.weights} :
          reward_net' = [reward_net EXCEPT !.weights = weights]
    /\ UNCHANGED <<lists, best, eval_call, ncalls, recorded,
                   not_evaluator_vars>>

NextEvaluator ==
    \/ CallEvaluate
    \/ CallEvaluatePostTraining
    \/ SetMode
    \/ UpdateWeights

SpecEvaluator == InitEvaluator /\ [][NextEvaluator]_vars

-----------------------------------------------------------------------------
(* Specification SpecThreads: calls of evaluate and evaluate_post_training *)
(* made by several threads, one statement of a call at a time.  Entering a *)
(* call and its first statement are one step; so are the statements of     *)
(* evaluate that touch only locals (lines 35-42), and lines 62-66 of       *)
(* evaluate_post_training.                                                 *)

\* the calls started in a behaviour
MaxThreadCalls == 3

\* the batch of the call numbered id, or a batch without reward
ThreadBatches(id) ==
    [ranking : {FALSE}, slate_reward : {None}, reward : {None, Some(<<id>>)}]

\* what the forward pass and loss_fn do in the call numbered id
ThreadOutcomes(id) ==
    [raises : {"none", "forward"}, pred_reward : {id}, loss : {id}]

\* thread t, in no call, enters one with the locals of thread; the calls in
\* progress, and this one, then overlap
Started(t, thread) ==
    /\ threads[t].pc = "idle"
    /\ ncalls < MaxThreadCalls
    /\ ncalls' = ncalls + 1
    /\ returns' = returns
    /\ threads' =
          [u \in Threads |->
             IF u = t
             THEN [thread EXCEPT
                      !.id = ncalls + 1,
                      !.overlapped =
                          \E v \in Threads \ {t} : threads[v].pc # "idle"]
             ELSE IF threads[u].pc # "idle"
             THEN [threads[u] EXCEPT !.overlapped = TRUE]
             ELSE threads[u]]

\* the call of thread t ends: it returns eval_res or raises exception
Ended(t, exception, eval_res) ==
    /\ threads' = [threads EXCEPT ![t] = IdleThread]
    /\ returns' = Append(returns,
                         [op |-> threads[t].op, id |-> threads[t].id,
                          error |-> exception,
                          overlapped |-> threads[t].overlapped,
                          training_before |-> threads[t].reward_net_prev_mode,
                          training_after |-> reward_net'.training,
                          eval_res |-> eval_res])
    /\ ncalls' = ncalls

\* thread t goes on to its next statement
Continued(t, thread) ==
    /\ threads' = [threads EXCEPT ![t] = thread]
    /\ returns' = returns
    /\ ncalls' = ncalls

\* mutant of RestoreMode: the model is put in training mode
RestoreTrainingMode(model, prev_mode) == [model EXCEPT !.training = TRUE]

\* reward_net.train(reward_net_prev_mode)
RestoreMode(model, prev_mode) == [model EXCEPT !.training = prev_mode]

\* evaluate: reward_net_prev_mode = reward_net.training
EvalSaveMode(t) ==
    /\ Started(t, [IdleThread EXCEPT
                      !.pc = "eval", !.op = "evaluate",
                      !.reward_net_prev_mode = reward_net.training])
    /\ UNCHANGED <<reward_net, lists, best, not_thread_vars>>

\* evaluate: reward_net.eval()
EvalSetEval(t) ==
    /\ threads[t].pc = "eval"
    /\ reward_net' = [reward_net EXCEPT !.training = FALSE]
    /\ Continued(t, [threads[t] EXCEPT !.pc = "forward"])
    /\ UNCHANGED <<lists, best, not_thread_vars>>

\* evaluate: the reward, the assertion, the forward pass and loss_fn
EvalForward(t) ==
    /\ threads[t].pc = "forward"
    /\ UNCHANGED <<reward_net, lists, best, not_thread_vars>>
    /\ \E eval_tdp \in ThreadBatches(threads[t].id),
          outcome \in ThreadOutcomes(threads[t].id) :
          LET reward == BatchReward(eval_tdp)
          IN  IF IsNone(reward)
              THEN Ended(t, "AssertionError", None)
              ELSE IF outcome.raises # "none"
              THEN Ended(t, "CollaboratorError", None)
              ELSE Continued(t,
                      [threads[t] EXCEPT
                          !.pc = "append_loss",
                          !.batch =
                              Some([loss |-> outcome.loss,
                                    reward |-> Get(reward),
                                    pred_reward |->
                                       PredictedReward(Get(reward), outcome)])])

\* evaluate: self.loss.append(...)
EvalAppendLoss(t) ==
    /\ threads[t].pc = "append_loss"
    /\ loss' = Append(loss, Get(threads[t].batch).loss)
    /\ Continued(t, [threads[t] EXCEPT !.pc = "append_rewards"])
    /\ UNCHANGED <<reward_net, rewards, pred_rewards, best, not_thread_vars>>

\* evaluate: self.rewards.append(...)
EvalAppendRewards(t) ==
    /\ threads[t].pc = "append_rewards"
    /\ rewards' = Append(rewards, Get(threads[t].batch).reward)
    /\ Continued(t, [threads[t] EXCEPT !.pc = "append_pred_rewards"])
    /\ UNCHANGED <<reward_net, loss, pred_rewards, best, not_thread_vars>>

\* evaluate: self.pred_rewards.append(...)
EvalAppendPredRewards(t) ==
    /\ threads[t].pc = "append_pred_rewards"
    /\ pred_rewards' = Append(pred_rewards, Get(threads[t].batch).pred_reward)
    /\ Continued(t, [threads[t] EXCEPT !.pc = "train"])
    /\ UNCHANGED <<reward_net, loss, rewards, best, not_thread_vars>>

\* evaluate: reward_net.train(reward_net_prev_mode), and the return
EvalRestoreMode(t) ==
    /\ threads[t].pc = "train"
    /\ reward_net' = RestoreMode(reward_net, threads[t].reward_net_prev_mode)
    /\ Ended(t, "none", None)
    /\ UNCHANGED <<lists, best, not_thread_vars>>

\* evaluate_post_training: mean_loss = np.mean(self.loss)
PostMean(t) ==
    /\ Started(t, [IdleThread EXCEPT
                      !.pc = "cat_rewards", !.op = "evaluate_post_training",
                      !.mean_loss = Some(NpMean(loss))])
    /\ UNCHANGED <<reward_net, lists, best, not_thread_vars>>

\* evaluate_post_training: "rewards": torch.cat(self.rewards)
PostCatRewards(t) ==
    /\ threads[t].pc = "cat_rewards"
    /\ UNCHANGED <<reward_net, lists, best, not_thread_vars>>
    /\ IF TorchCatRaises(rewards)
       THEN Ended(t, "RuntimeError", None)
       ELSE Continued(t, [threads[t] EXCEPT
                             !.pc = "cat_pred_rewards",
                             !.eval_res_rewards = Some(TorchCat(rewards))])

\* evaluate_post_training: "pred_rewards": torch.cat(self.pred_rewards)
PostCatPredRewards(t) ==
    /\ threads[t].pc = "cat_pred_rewards"
    /\ UNCHANGED <<reward_net, lists, best, not_thread_vars>>
    /\ IF TorchCatRaises(pred_rewards)
       THEN Ended(t, "RuntimeError", None)
       ELSE Continued(t, [threads[t] EXCEPT
                             !.pc = "clear_loss",
                             !.eval_res_pred_rewards =
                                 Some(TorchCat(pred_rewards))])

\* evaluate_post_training: self.loss = []
PostClearLoss(t) ==
    /\ threads[t].pc = "clear_loss"
    /\ loss' = <<>>
    /\ Continued(t, [threads[t] EXCEPT !.pc = "clear_rewards"])
    /\ UNCHANGED <<reward_net, rewards, pred_rewards, best, not_thread_vars>>

\* evaluate_post_training: self.rewards = []
PostClearRewards(t) ==
    /\ threads[t].pc = "clear_rewards"
    /\ rewards' = <<>>
    /\ Continued(t, [threads[t] EXCEPT !.pc = "clear_pred_rewards"])
    /\ UNCHANGED <<reward_net, loss, pred_rewards, best, not_thread_vars>>

\* evaluate_post_training: self.pred_rewards = []
PostClearPredRewards(t) ==
    /\ threads[t].pc = "clear_pred_rewards"
    /\ pred_rewards' = <<>>
    /\ Continued(t, [threads[t] EXCEPT !.pc = "best"])
    /\ UNCHANGED <<reward_net, loss, rewards, best, not_thread_vars>>

\* evaluate_post_training: "if mean_loss < self.best_model_loss: ..." and
\* "return eval_res"
PostBest(t) ==
    /\ threads[t].pc = "best"
    /\ UNCHANGED <<reward_net, lists, not_thread_vars>>
    /\ LET mean_loss == Get(threads[t].mean_loss)
       IN  /\ IF Improves(mean_loss, best_model_loss)
              THEN /\ best_model_loss' = mean_loss
                   /\ best_model' = Some(DeepCopy(reward_net))
              ELSE UNCHANGED best
           /\ Ended(t, "none",
                    Some([loss |-> mean_loss,
                          rewards |-> Get(threads[t].eval_res_rewards),
                          pred_rewards |->
                             Get(threads[t].eval_res_pred_rewards)]))

InitThreads ==
    /\ RunIdle
    /\ RangeIdle
    /\ PipelineIdle
    /\ EvaluatorStart
    /\ reward_net \in [training : BOOLEAN, weights : {0}]

NextThreads ==
    \E t \in Threads :
       \/ EvalSaveMode(t)
       \/ EvalSetEval(t)
       \/ EvalForward(t)
       \/ EvalAppendLoss(t)
       \/ EvalAppendRewards(t)
       \/ EvalAppendPredRewards(t)
       \/ EvalRestoreMode(t)
       \/ PostMean(t)
       \/ PostCatRewards(t)
       \/ PostCatPredRewards(t)
       \/ PostClearLoss(t)
       \/ PostClearRewards(t)
       \/ PostClearPredRewards(t)
       \/ PostBest(t)

SpecThreads == InitThreads /\ [][NextThreads]_vars

-----------------------------------------------------------------------------
(* Claims about query_and_train, checked under Spec *)

ExactlyOne(a, b) == (Len(a) = 1) # (Len(b) = 1)

Occurrences(seq, x) == Cardinality({i \in 1..Len(seq) : seq[i] = x})

\* the statements after the mutual-exclusivity check
AfterCheck == {"sample_range", "query_train", "query_eval", "train",
               "validate", "publish", "return", "done"}

\* C1: train_workflow is invoked only with exactly one of setup_data and
\* normalization_data_map non-null, the run is past the check only in that
\* case, and a run that ends with the mutual-exclusivity ValueError had zero
\* or both non-null and called neither query_data nor train_workflow.
C1_ExactlyOneDataInput ==
    /\ pc \in AfterCheck => ExactlyOne(setup_data, normalization_data_map)
    /\ IsSome(train_args) =>
          ExactlyOne(Get(train_args).setup_data,
                     Get(train_args).normalization_data_map)
    /\ Occurrences(calls, "train_workflow") > 0 => IsSome(train_args)
    /\ error = "ValueError" =>
          /\ ~ExactlyOne(setup_data, normalization_data_map)
          /\ Occurrences(calls, "query_data") = 0
          /\ Occurrences(calls, "train_workflow") = 0
          /\ pc = "failed"
          /\ returned = None

\* C1 witness: the caller passed both, and the run ended with the ValueError
C1_Witness ==
    /\ error = "ValueError"
    /\ IsSome(setup_data)
    /\ IsSome(normalization_data_map)

\* the calls of query_and_train itself: from get_workflow_id on
RunCalls ==
    IF Occurrences(calls, "get_workflow_id") = 0 THEN <<>>
    ELSE LET first == CHOOSE i \in 1..Len(calls) :
                         /\ calls[i] = "get_workflow_id"
                         /\ \A j \in 1..(i - 1) : calls[j] # "get_workflow_id"
         IN  SubSeq(calls, first, Len(calls))

\* INIT = 1, RESOLVE_DATA = 2, QUERY_TRAIN / QUERY_EVAL = 3, TRAIN = 4,
\* VALIDATE = 5, PUBLISH = 6
StageOfCall(call) ==
    CASE call \in {"get_workflow_id", "get_new_named_entity_ids"} -> 1
      [] call \in {"get_data_module", "prepare_data"} -> 2
      [] call = "query_data" -> 3
      [] call = "train_workflow" -> 4
      [] call = "validate" -> 5
      [] call = "publish" -> 6
      [] OTHER -> 0

\* C2: the collaborator calls of a run follow the stage order, no stage is
\* repeated, a run that is done called train_workflow exactly once, validate
\* is called only after training returned, publish only after validate
\* returned when a validator was given, and the record handed to the
\* publisher then carries the validation result.
C2_StageOrder ==
    /\ \A i, j \in 1..Len(RunCalls) :
          i < j => /\ StageOfCall(RunCalls[i]) <= StageOfCall(RunCalls[j])
                   /\ StageOfCall(RunCalls[i]) > 0
    /\ \A call \in {"get_workflow_id", "get_new_named_entity_ids",
                    "get_data_module", "prepare_data", "train_workflow",
                    "validate", "publish"} : Occurrences(RunCalls, call) <= 1
    /\ Occurrences(RunCalls, "query_data") <= 2
    /\ pc = "done" =>
          /\ Occurrences(calls, "train_workflow") = 1
          /\ IsSome(returned)
          /\ IsSome(validator) = (Occurrences(calls, "validate") = 1)
          /\ IsSome(publisher) = (Occurrences(calls, "publish") = 1)
    /\ Occurrences(calls, "validate") > 0 =>
          /\ Occurrences(calls, "train_workflow") = 1
          /\ IsSome(results)
    /\ Occurrences(calls, "publish") > 0 =>
          /\ Occurrences(calls, "train_workflow") = 1
          /\ IsSome(publish_arg)
          /\ IsSome(validator) =>
                /\ Occurrences(calls, "validate") = 1
                /\ IsSome(Get(publish_arg).validation_result)

\* C2 witness: a run with both queries, a validator and a publisher is done
C2_Witness ==
    /\ pc = "done"
    /\ RunCalls = <<"get_workflow_id", "get_new_named_entity_ids",
                    "get_data_module", "query_data", "query_data",
                    "train_workflow", "validate", "publish">>
    /\ IsSome(Get(returned).validation_result)
    /\ IsSome(Get(returned).publishing_result)

\* C3: a step in which a stage fails ends the run with nothing returned,
\* and once a stage has failed no further collaborator is called, the
\* failed one is not called again, nothing is queried and no
\* RLTrainingOutput is returned.
C3_FailureAborts ==
    [][/\ error' # "none" => (pc' = "failed" /\ returned' = None)
       /\ pc' = "failed" => error' # "none"
       /\ error # "none" =>
             /\ calls' = calls
             /\ queries' = queries
             /\ returned' = returned
             /\ error' = error]_vars

\* C3 witness: train_workflow raised in a run that was given a validator and
\* a publisher, and neither was called
C3_Witness ==
    /\ error = "CollaboratorError"
    /\ pc = "failed"
    /\ calls[Len(calls)] = "train_workflow"
    /\ IsSome(validator)
    /\ IsSome(publisher)
    /\ returned = None

-----------------------------------------------------------------------------
(* Claims about get_sample_range, checked under SpecRange *)

RangeTableSample == range_input.table_spec.table_sample

RangeEvalTableSample == range_input.table_spec.eval_table_sample

RangeCpe == range_input.calc_cpe_in_training

RangeSucceeded == IsSome(range_output) /\ ~Get(range_output).raised

\* C4: a call that succeeds returns the reference table: with CPE,
\* (0, table_sample) and (100 - eval_table_sample, 100); without, (0,
\* table_sample) or (0, 100) when table_sample is unset, and (0, 0).
C4_ReferenceTable ==
    RangeSucceeded =>
       IF RangeCpe
       THEN /\ IsSome(RangeTableSample)
            /\ IsSome(RangeEvalTableSample)
            /\ Get(range_output).train_sample_range[1] = 0
            /\ Get(range_output).train_sample_range[2] = Get(RangeTableSample)
            /\ Get(range_output).eval_sample_range[1] + Get(RangeEvalTableSample)
                  = Hundred
            /\ Get(range_output).eval_sample_range[2] = Hundred
       ELSE /\ Get(range_output).train_sample_range[1] = 0
            /\ Get(range_output).train_sample_range[2] =
                  (IF IsNone(RangeTableSample) THEN Hundred
                   ELSE Get(RangeTableSample))
            /\ Get(range_output).eval_sample_range = <<0, 0>>

\* C4 witness: table_sample = 80, eval_table_sample = 15 with CPE gives
\* (0, 80) and (85, 100)
C4_Witness ==
    /\ RangeSucceeded
    /\ RangeCpe
    /\ RangeTableSample = Some(16 * Step)
    /\ RangeEvalTableSample = Some(3 * Step)
    /\ Get(range_output).train_sample_range = <<0, 16 * Step>>
    /\ Get(range_output).eval_sample_range = <<17 * Step, Hundred>>

\* both percentages set, in [0, 100], their sum at most 100 + 1e-3, with CPE
WithinToleranceInput ==
    /\ IsSome(range_output)
    /\ RangeCpe
    /\ IsSome(RangeTableSample)
    /\ IsSome(RangeEvalTableSample)
    /\ Get(RangeTableSample) \in 0..Hundred
    /\ Get(RangeEvalTableSample) \in 0..Hundred
    /\ Get(RangeTableSample) + Get(RangeEvalTableSample) <= Hundred + Eps

\* C5 as stated: on such an input the upper bound of the train range is not
\* above the lower bound of the eval range.
C5_NeverOverlap ==
    WithinToleranceInput =>
       /\ RangeSucceeded
       /\ Get(range_output).train_sample_range[2]
             <= Get(range_output).eval_sample_range[1]

\* C5 amended: on such an input the call succeeds, and whenever a call with
\* CPE succeeds the train range reaches above the lower bound of the eval
\* range by at most the tolerance 1e-3, and not at all when the sum of the
\* two percentages is at most 100.
C5_OverlapWithinTolerance ==
    /\ WithinToleranceInput => RangeSucceeded
    /\ RangeSucceeded /\ RangeCpe =>
          /\ Get(range_output).train_sample_range[2]
                <= Get(range_output).eval_sample_range[1] + Eps
          /\ Get(RangeTableSample) + Get(RangeEvalTableSample) <= Hundred =>
                Get(range_output).train_sample_range[2]
                   <= Get(range_output).eval_sample_range[1]

\* C5 witness: the sum is 100 + 1e-3 and the ranges share 1e-3
C5_Witness ==
    /\ WithinToleranceInput
    /\ RangeSucceeded
    /\ Get(range_output).train_sample_range[2]
          = Get(range_output).eval_sample_range[1] + Eps

\* C6: with CPE the call raises exactly when table_sample is unset,
\* eval_table_sample is unset or their sum is above 100 + 1e-3, and then it
\* returns no ranges; without CPE it never raises.
C6_RaisesExactlyWhen ==
    IsSome(range_output) =>
       /\ Get(range_output).raised =
             /\ RangeCpe
             /\ \/ IsNone(RangeTableSample)
                \/ IsNone(RangeEvalTableSample)
                \/ Get(RangeTableSample) + Get(RangeEvalTableSample)
                      > Hundred + Eps
       /\ Get(range_output).raised =>
             /\ Get(range_output).train_sample_range = <<>>
             /\ Get(range_output).eval_sample_range = <<>>

\* C6 witness: both set, the sum half a tolerance above 100 + 1e-3
C6_Witness ==
    /\ IsSome(range_output)
    /\ Get(range_output).raised
    /\ IsSome(RangeTableSample)
    /\ IsSome(RangeEvalTableSample)
    /\ Get(RangeTableSample) + Get(RangeEvalTableSample)
          = Hundred + Eps + FineStep

-----------------------------------------------------------------------------
(* Claims about run_validator and run_publisher, checked under SpecStages *)

\* C10: a call of run_validator on a record whose validation_result is set,
\* and a call of run_publisher on a record whose publishing_result is set,
\* raises the AssertionError without calling validate or publish and
\* returns no record: the caller's record stays as it was.
C10_SetFieldRejected ==
    [][(\/ /\ stage_outcome'.op = "run_validator"
           /\ IsSome(stage_record.validation_result)
        \/ /\ stage_outcome'.op = "run_publisher"
           /\ IsSome(stage_record.publishing_result)) =>
          /\ stage_outcome'.error = "AssertionError"
          /\ ~stage_outcome'.called
          /\ stage_outcome'.output = None
          /\ stage_calls' = stage_calls
          /\ stage_record' = stage_record]_vars

\* C10 witness: run_validator ran once, its record was kept, and the second
\* run_validator on that record raised
C10_Witness ==
    /\ stage_calls = <<"validate">>
    /\ stage_outcome.op = "run_validator"
    /\ stage_outcome.error = "AssertionError"
    /\ stage_outcome.input = stage_record
    /\ IsSome(stage_record.validation_result)
    /\ IsNone(stage_record.publishing_result)

-----------------------------------------------------------------------------
(* Claims about RewardNetEvaluator, checked under SpecEvaluator *)

\* a step that is a call of evaluate
EvaluateStep == ncalls' # ncalls /\ eval_call'.op = "evaluate"

\* a step that is a call of evaluate_post_training
PostTrainingStep == ncalls' # ncalls /\ eval_call'.op = "evaluate_post_training"

\* C7: best_model_loss never increases; a call of evaluate_post_training
\* that returns, with the mean m of the accumulated losses, sets
\* best_model_loss to m and best_model to a copy of the live model if
\* m < best_model_loss, and leaves both as they were otherwise; every other
\* step leaves both as they were.
C7_BestOnlyOnStrictImprovement ==
    [][/\ ~Less(best_model_loss, best_model_loss')
       /\ IF PostTrainingStep /\ eval_call'.error = "none"
          THEN LET m == Get(eval_call'.mean_loss)
               IN  /\ Len(loss) > 0
                   /\ m.num * Len(loss) = Sum(loss) * m.den
                   /\ IF Less(m, best_model_loss)
                      THEN /\ best_model_loss' = m
                           /\ best_model' = Some(reward_net)
                      ELSE /\ best_model_loss' = best_model_loss
                           /\ best_model' = best_model
          ELSE /\ best_model_loss' = best_model_loss
               /\ best_model' = best_model]_vars

\* C7 witness: a later epoch's mean was above the best, which stayed
C7_Witness ==
    /\ eval_call.op = "evaluate_post_training"
    /\ eval_call.error = "none"
    /\ IsSome(best_model)
    /\ Less(best_model_loss, Get(eval_call.mean_loss))

C9_ModeRestored ==
    [][EvaluateStep => reward_net'.training = reward_net.training]_vars

-----------------------------------------------------------------------------
(* Claims about data resolution and the dataset queries, checked under Spec *)

\* the statements after "if setup_data is None: ..."
AfterResolve == {"check"} \cup AfterCheck

\* C11 as stated: whenever the manager has a data module, train_workflow
\* receives the prepared setup data and a null normalization data map,
\* whatever the caller passed.
C11_DataModuleAlwaysSupersedes ==
    IsSome(manager_data_module) /\ IsSome(train_args) =>
       /\ Get(train_args).setup_data = Some("prepared_setup_data")
       /\ Get(train_args).normalization_data_map = None

\* C11 amended: data resolution that finds setup_data null and a manager
\* with a data module calls get_data_module and prepare_data, takes what
\* prepare_data returned as setup_data and sets normalization_data_map to
\* null; with setup_data non-null, or no data module, it leaves both as
\* they were and does not call prepare_data.  Nothing after resolution
\* assigns either, train_workflow receives them as they are, and a run in
\* which query_and_train called prepare_data trains with the prepared
\* setup data and a null normalization data map.
C11_PreparedDataSupersedes ==
    [][/\ pc = "resolve" /\ pc' = "check" =>
             IF IsNone(setup_data) /\ IsSome(manager_data_module)
             THEN /\ calls' = calls \o <<"get_data_module", "prepare_data">>
                  /\ setup_data' \in PreparedData
                  /\ normalization_data_map' = None
             ELSE /\ setup_data' = setup_data
                  /\ normalization_data_map' = normalization_data_map
                  /\ Occurrences(calls', "prepare_data")
                        = Occurrences(calls, "prepare_data")
       /\ pc \in AfterResolve =>
             /\ setup_data' = setup_data
             /\ normalization_data_map' = normalization_data_map
       /\ IsSome(train_args') =>
             /\ Get(train_args').setup_data = setup_data'
             /\ Get(train_args').normalization_data_map
                   = normalization_data_map'
             /\ Occurrences(RunCalls', "prepare_data") = 1 =>
                   /\ Get(train_args').setup_data = Some("prepared_setup_data")
                   /\ Get(train_args').normalization_data_map = None]_vars

\* C11 witness: a direct run whose resolution called prepare_data has
\* trained with the prepared setup data and no normalization data map
C11_Witness ==
    /\ entry = "direct"
    /\ IsSome(manager_data_module)
    /\ IsSome(saved_setup_data)
    /\ Occurrences(RunCalls, "prepare_data") = 1
    /\ IsSome(train_args)
    /\ Get(train_args).setup_data = Some("prepared_setup_data")
    /\ Get(train_args).normalization_data_map = None

\* C12: query_data is called at most twice and only on the normalization
\* path; when train_workflow is called, query_data was called 0 times if
\* setup_data is set, once (with the train range) if the manager does not
\* generate an eval dataset and twice (train range, then eval range, both of
\* the one get_sample_range result) if it does; the train dataset is what
\* the first query gave, and the eval dataset is null unless the second
\* query was issued.
C12_QueryCount ==
    /\ Len(queries) = Occurrences(calls, "query_data")
    /\ Len(queries) <= (IF should_generate_eval_dataset THEN 2 ELSE 1)
    /\ Len(queries) > 0 =>
          /\ IsSome(normalization_data_map)
          /\ IsNone(setup_data)
          /\ IsSome(sample_range_output)
          /\ Get(sample_range_output) =
                get_sample_range(input_table_spec,
                                 should_generate_eval_dataset)
          /\ queries[1] = Get(sample_range_output).train_sample_range
          /\ queries[1] = <<0, IF IsSome(input_table_spec.table_sample)
                               THEN Get(input_table_spec.table_sample)
                               ELSE Hundred>>
    /\ Len(queries) = 2 =>
          /\ queries[2] = Get(sample_range_output).eval_sample_range
          /\ queries[2] =
                <<Hundred - Get(input_table_spec.eval_table_sample), Hundred>>
    /\ IsSome(train_args) =>
          /\ Len(queries) =
                (IF IsSome(Get(train_args).setup_data) THEN 0
                 ELSE IF should_generate_eval_dataset THEN 2 ELSE 1)
          /\ Get(train_args).train_dataset =
                (IF Len(queries) >= 1 THEN Some(queries[1]) ELSE None)
          /\ Get(train_args).eval_dataset =
                (IF Len(queries) = 2 THEN Some(queries[2]) ELSE None)

\* C12 witness: a run on the normalization path whose manager generates an
\* eval dataset is done, with the queries (0, 80) and (85, 100)
C12_Witness ==
    /\ pc = "done"
    /\ should_generate_eval_dataset
    /\ queries = << <<0, 16 * Step>>, <<17 * Step, Hundred>> >>
    /\ Get(train_args).train_dataset = Some(<<0, 16 * Step>>)
    /\ Get(train_args).eval_dataset = Some(<<17 * Step, Hundred>>)
    /\ Get(train_args).setup_data = None

\* the path the first consultation of get_data_module chose
FirstChoice ==
    LET first == CHOOSE i \in 1..Len(calls) :
                    /\ calls[i] = "get_data_module"
                    /\ \A j \in 1..(i - 1) : calls[j] # "get_data_module"
    IN  IF first < Len(calls) /\ calls[first + 1] = "prepare_data"
        THEN "setup_data" ELSE "normalization_data_map"

\* C20 as stated: in a run from either entry point get_data_module is
\* called at most once, and train_workflow is given the data of the path
\* that the first call chose.
C20_ResolvedOnce ==
    /\ Occurrences(calls, "get_data_module") <= 1
    /\ IsSome(train_args) /\ Occurrences(calls, "get_data_module") > 0 =>
          IsSome(Get(train_args).setup_data) = (FirstChoice = "setup_data")

-----------------------------------------------------------------------------
(* Further claims about run_validator and run_publisher, under SpecStages *)

\* C13: the record run_validator returns is its input with validation_result
\* set to what validate returned and every other field as it was; the
\* record run_publisher returns is its input with publishing_result set to
\* what publish returned and every other field, validation_result
\* included, as it was; and after either call the caller holds the input
\* record as it was, or the returned record if it kept that one.
C13_OnlyOwnField ==
    [][/\ stage_outcome'.op = "run_validator" /\ IsSome(stage_outcome'.output) =>
             LET output == Get(stage_outcome'.output)
             IN  /\ output.training_report = stage_record.training_report
                 /\ output.publishing_result = stage_record.publishing_result
                 /\ IsSome(output.validation_result)
                 /\ IsNone(stage_record.validation_result)
       /\ stage_outcome'.op = "run_publisher" /\ IsSome(stage_outcome'.output) =>
             LET output == Get(stage_outcome'.output)
             IN  /\ output.training_report = stage_record.training_report
                 /\ output.validation_result = stage_record.validation_result
                 /\ IsSome(output.publishing_result)
                 /\ IsNone(stage_record.publishing_result)
       /\ stage_outcome'.input = stage_record
       /\ \/ stage_record' = stage_record
          \/ Some(stage_record') = stage_outcome'.output]_vars

\* C13 witness: run_publisher returned a record for a validated input; the
\* caller still holds the input, whose publishing_result is unset
C13_Witness ==
    /\ stage_outcome.op = "run_publisher"
    /\ IsSome(stage_outcome.output)
    /\ stage_record = stage_outcome.input
    /\ IsSome(stage_record.validation_result)
    /\ IsNone(stage_record.publishing_result)
    /\ Get(stage_outcome.output).validation_result
          = stage_record.validation_result
    /\ IsSome(Get(stage_outcome.output).publishing_result)

-----------------------------------------------------------------------------
(* Further claims about RewardNetEvaluator, checked under SpecEvaluator *)

\* the number of elements of tensors[1], ..., tensors[i - 1]
Offset(tensors, i) == Sum([k \in 1..(i - 1) |-> Len(tensors[k])])

\* result holds the elements of the tensors, in their order, and no other
IsConcatenation(result, tensors) ==
    /\ Len(result) = Offset(tensors, Len(tensors) + 1)
    /\ \A i \in 1..Len(tensors) : \A j \in 1..Len(tensors[i]) :
          result[Offset(tensors, i) + j] = tensors[i][j]

\* C14: a call of evaluate_post_training that returns leaves the three
\* lists empty; the rewards and pred_rewards it returns are the
\* concatenation, in call order, of the rewards and predictions of exactly
\* the calls of evaluate that returned since the previous call of
\* evaluate_post_training (or since construction), and the loss it returns
\* is the mean of their losses; a call that raises had no such batch.
C14_DrainSemantics ==
    [][/\ PostTrainingStep /\ eval_call'.error = "none" =>
             /\ loss' = <<>>
             /\ rewards' = <<>>
             /\ pred_rewards' = <<>>
             /\ recorded # <<>>
             /\ LET eval_res == Get(eval_call'.eval_res)
                    n == Len(recorded)
                IN  /\ IsConcatenation(eval_res.rewards,
                          [i \in 1..n |-> recorded[i].reward])
                    /\ IsConcatenation(eval_res.pred_rewards,
                          [i \in 1..n |-> recorded[i].pred_reward])
                    /\ eval_res.loss.den # 0
                    /\ eval_res.loss.num * n =
                          Sum([i \in 1..n |-> recorded[i].loss])
                             * eval_res.loss.den
       /\ PostTrainingStep /\ eval_call'.error # "none" => recorded = <<>>]_vars

\* C14 witness: the second epoch's call returned the one batch evaluated
\* after the first epoch's call, which had returned another batch
C14_Witness ==
    /\ ncalls = 4
    /\ eval_call.op = "evaluate_post_training"
    /\ IsSome(eval_call.eval_res)
    /\ Get(eval_call.eval_res).rewards = <<2, 1>>
    /\ Get(eval_call.eval_res).pred_rewards = <<0, 0>>
    /\ Get(eval_call.eval_res).loss = Rational(1, 1)
    /\ best_model_loss = Rational(1, 1)
    /\ loss = <<>>

\* the batch of the last call lacks its ground-truth reward: slate_reward
\* for a PreprocessedRankingInput, reward for any other batch
RewardAbsent(call) ==
    IF Get(call.eval_tdp).ranking
    THEN ~Get(call.eval_tdp).has_slate_reward
    ELSE ~Get(call.eval_tdp).has_reward

\* C15: a call of evaluate on a batch whose ground-truth reward is absent
\* raises the AssertionError before the forward pass, whether or not the
\* batch's other reward field is set, appends nothing to the three lists
\* and leaves best_model and best_model_loss as they were; and the
\* AssertionError is raised on no other batch.
C15_MissingRewardRejected ==
    [][EvaluateStep =>
          /\ RewardAbsent(eval_call') = (eval_call'.error = "AssertionError")
          /\ RewardAbsent(eval_call') =>
                /\ ~eval_call'.forward_called
                /\ loss' = loss
                /\ rewards' = rewards
                /\ pred_rewards' = pred_rewards
                /\ best_model' = best_model
                /\ best_model_loss' = best_model_loss]_vars

\* C15 witness: a ranking batch without slate_reward but with reward was
\* rejected, with one batch accumulated and a best model stored
C15_Witness ==
    /\ eval_call.op = "evaluate"
    /\ eval_call.error = "AssertionError"
    /\ ~eval_call.forward_called
    /\ Get(eval_call.eval_tdp).ranking
    /\ Get(eval_call.eval_tdp).has_reward
    /\ Len(loss) = 1
    /\ Len(rewards) = 1
    /\ IsSome(best_model)

C19_ParallelLists ==
    /\ Len(loss) = Len(recorded)
    /\ Len(rewards) = Len(recorded)
    /\ Len(pred_rewards) = Len(recorded)
    /\ \A i \in 1..Len(recorded) :
          /\ loss[i] = recorded[i].loss
          /\ rewards[i] = recorded[i].reward
          /\ pred_rewards[i] = recorded[i].pred_reward
          /\ Len(rewards[i]) = Len(pred_rewards[i])

\* C19 witness: one batch is held after three calls, none of them a call
\* of evaluate_post_training that returned: one call of evaluate returned,
\* and in the last one the forward pass or loss_fn raised
C19_Witness ==
    /\ ncalls = 3
    /\ Len(recorded) = 1
    /\ Len(loss) = 1
    /\ eval_call.op = "evaluate"
    /\ eval_call.error = "CollaboratorError"
    /\ IsNone(best_model)

-----------------------------------------------------------------------------
(* Claims about calls from several threads, checked under SpecThreads *)

\* no thread is in a call
AllReturned == \A t \in Threads : threads[t].pc = "idle"

\* no call that ended was in progress together with another
NoneOverlapped == \A i \in 1..Len(returns) : ~returns[i].overlapped

\* C17: a call of evaluate that returns and did not overlap another call
\* leaves the model's training flag as it was before the call, so that
\* after calls of evaluate that all returned and did not overlap the flag
\* is as it was at the start.  (The witness is the other half: two calls
\* that overlapped have returned and the flag, set at the start, is clear.)
C17_NonOverlappingRestores ==
    /\ \A i \in 1..Len(returns) :
          /\ returns[i].op = "evaluate"
          /\ returns[i].error = "none"
          /\ ~returns[i].overlapped
          => returns[i].training_after = returns[i].training_before
    /\ (/\ AllReturned
        /\ NoneOverlapped
        /\ returns # <<>>
        /\ \A i \in 1..Len(returns) :
              returns[i].op = "evaluate" /\ returns[i].error = "none")
       => reward_net.training = returns[1].training_before

\* C17 witness: starting in training mode, two calls of evaluate interleaved
\* and both returned, and the model is left in eval mode
C17_Witness ==
    /\ AllReturned
    /\ Len(returns) = 2
    /\ \A i \in 1..2 :
          /\ returns[i].op = "evaluate"
          /\ returns[i].error = "none"
          /\ returns[i].overlapped
          /\ returns[i].id = 1 => returns[i].training_before
    /\ ~reward_net.training

\* the calls of evaluate that returned, by their numbers
BatchIds ==
    {returns[i].id : i \in {j \in 1..Len(returns) :
                               /\ returns[j].op = "evaluate"
                               /\ returns[j].error = "none"}}

\* the results that calls of evaluate_post_training returned
Bundles ==
    {Get(returns[i].eval_res) : i \in {j \in 1..Len(returns) :
                                          IsSome(returns[j].eval_res)}}

Elements(seq) == {seq[i] : i \in 1..Len(seq)}

\* the batch of call id is in all three lists, or in none of them
WholeInLists(id) ==
    /\ id \in Elements(loss)
    /\ <<id>> \in Elements(rewards)
    /\ <<id>> \in Elements(pred_rewards)

NoneInLists(id) ==
    /\ id \notin Elements(loss)
    /\ <<id>> \notin Elements(rewards)
    /\ <<id>> \notin Elements(pred_rewards)

\* the result holds the rewards and predictions of the same batches, each
\* once, and the mean of their losses
WholeBundle(eval_res) ==
    /\ Elements(eval_res.rewards) = Elements(eval_res.pred_rewards)
    /\ Cardinality(Elements(eval_res.rewards)) = Len(eval_res.rewards)
    /\ Len(eval_res.pred_rewards) = Len(eval_res.rewards)
    /\ eval_res.loss.den # 0
    /\ eval_res.loss.num * Len(eval_res.rewards)
          = Sum(eval_res.rewards) * eval_res.loss.den

\* the batch of call id is completely in a returned result
WholeInBundle(id) ==
    \E eval_res \in Bundles :
       WholeBundle(eval_res) /\ id \in Elements(eval_res.rewards)

\* C18: when no call overlapped another and all have ended, the three
\* lists have equal lengths, every returned result is whole, and the batch
\* of every call of evaluate that returned is either in all three lists
\* and in no result, or in none of the lists and in exactly one result.
\* (The witness is the other half: a batch lost or torn by a call of
\* evaluate_post_training that overlapped its call of evaluate.)
C18_NonOverlappingDrain ==
    AllReturned /\ NoneOverlapped =>
       /\ Len(loss) = Len(rewards)
       /\ Len(rewards) = Len(pred_rewards)
       /\ \A eval_res \in Bundles : WholeBundle(eval_res)
       /\ \A id \in BatchIds :
             IF WholeInLists(id)
             THEN \A eval_res \in Bundles :
                     /\ id \notin Elements(eval_res.rewards)
                     /\ id \notin Elements(eval_res.pred_rewards)
             ELSE /\ NoneInLists(id)
                  /\ Cardinality({eval_res \in Bundles :
                                     id \in Elements(eval_res.rewards)}) = 1

\* C18 witness: a call of evaluate and a call of evaluate_post_training
\* overlapped and both returned; the batch is neither completely in the
\* lists nor completely in the result, and the lists have unequal lengths
C18_Witness ==
    /\ AllReturned
    /\ Cardinality(Bundles) = 1
    /\ \E id \in BatchIds :
          /\ ~WholeInLists(id)
          /\ ~WholeInBundle(id)
          /\ \E i \in 1..Len(returns) :
                returns[i].id = id /\ returns[i].overlapped
    /\ Len(loss) # Len(rewards)

====
